---- MODULE Spec2Model ----
(***************************************************************************)
(* State-machine model of the WebRTC streaming template:                   *)
(*   - the useWebRTC hook (src/src/hooks/useWebRTC.ts), used by a viewer   *)
(*     page (isStreamer = FALSE) or by the streamer page (isStreamer =     *)
(*     TRUE);                                                              *)
(*   - the viewer page (src/src/app/viewer/[roomId]/page.tsx): join,       *)
(*     offer handling, automatic retry, reconnect;                         *)
(*   - the streamer page (src/src/app/streamer/page.tsx): pause, resume,   *)
(*     viewer-joined / viewer-left;                                        *)
(*   - the signaling server (src/server.js): rooms and relay.              *)
(*                                                                         *)
(* SpecViewer runs one viewer page against its environment (offers         *)
(* delivered by the relay, join acknowledgements, browser events).         *)
(* SpecStreamer runs one streamer page against the signaling server and a  *)
(* set of viewer sockets.                                                  *)
(*                                                                         *)
(* Client code is single-threaded: every action is one callback run to     *)
(* its next await. React effects whose dependencies changed are flushed    *)
(* (commitEffects) before the next event is handled.                       *)
(***************************************************************************)
EXTENDS Integers, FiniteSets, Sequences, TLC

\* ------------------------------------------------------------------ bounds

\* Session objects (RTCPeerConnection) that can be referenced at one time.
MaxPc == 3
\* Offers whose processing is in progress at one time (ids are reused).
MaxOffers == 2
\* Viewer sockets of the streamer-side specification.
NumViewers == 2
\* retryCountRef is not bounded by the code; the model stops counting here.
MaxCount == 6
\* Automatic reconnect sequences counted by the model.
MaxAuto == 6
\* Messages buffered towards one endpoint in the streamer-side specification.
MaxQueue == 1
\* Sockets of the server-only specification.
NumSockets == 3

\* ------------------------------------------------------- program constants

\* viewer page: if (retryCountRef.current > 5)
MaxRetries == 5
\* viewer page: const delay = 2000 * retryCountRef.current
RetryDelayUnit == 2000

PcIds == 1..MaxPc
OfferIds == 1..MaxOffers
\* The identity offers reach the viewer from: its room's streamer.
Streamers == {"s1"}
Viewers == 1..NumViewers

\* Socket ids: the viewers' are 1..NumViewers, the streamer's is this one.
\* The only room id of development mode.
StreamerSocket == 0
DEV_ROOM_ID == "dev-room-001"

VARIABLES
  \* useWebRTC refs
  isStreamer,        \* props.isStreamer
  peerConnection,    \* peerConnection.current: a PcId, 0 for null
  peerConnections,   \* peerConnections.current: viewer -> PcId, 0 for absent
  pcs,               \* the RTCPeerConnection objects, by PcId
  localStream,       \* localStream.current: 0 for null, 1 for a live MediaStream
  processingOffers,  \* processingOffers.current
  answerInv,         \* createAnswer invocations suspended at an await
  offerInv,          \* createOffer invocations suspended at an await
  \* useWebRTC state
  connectionState, isConnected, error, remoteStream,
  \* viewer page
  status, hasJoinedRoom, isJoining, isProcessingOffer,
  retryCount,        \* retryCountRef.current
  retryTimer,        \* retryTimeoutRef.current and the timer behind it
  joinPos,           \* position of the joinRoom invocation
  retryDeps,         \* dependency values of the auto-retry effect's last run
  joinDeps,          \* dependency values of the join-on-load effect's last run
  retryCleanup,      \* the auto-retry effect's last run returned its cleanup
  playback,          \* isStreamPaused, isVideoPlaying, needsUserInteraction
  \* either page
  mounted,           \* the page component is mounted
  \* streamer page
  roomId, isStreaming, isInitializing, viewersRef, restartPos,
  \* signaling server and transport
  rooms,             \* Map roomId -> {streamer, viewers}
  ioRooms,           \* socket.io room membership (socket.join)
  toServer,          \* messages emitted by clients, not yet handled by the server
  toStreamer,        \* messages the server sent to the streamer socket
  inbox,             \* viewer -> messages the server sent to that viewer socket
  \* signaling server on its own (SpecServer)
  isDevelopment,     \* process.env.NODE_ENV !== "production"
  sockets,           \* ids of the sockets connected to the server
  request,           \* the event the last handler was called for
  wire,              \* what the last handler sent: acknowledgement and events
  \* observation (history) variables used by the properties
  answerCount,       \* offer id -> answers emitted for it
  obs                \* see ObsInit

\* What no page, hook or queue action changes: the hook's prop and the state of
\* the server-only specification.
configVars == <<isStreamer, isDevelopment, sockets, request, wire>>
\* With the playback flags and the mounted flag, which few actions change.
fixedVars == <<configVars, playback, mounted>>
hookVars == <<fixedVars, peerConnection, peerConnections, pcs, localStream,
              processingOffers, answerInv, offerInv,
              connectionState, isConnected, error, remoteStream>>
viewerOnly == <<hasJoinedRoom, isJoining, isProcessingOffer, retryCount,
                retryTimer, joinPos, retryDeps, joinDeps, retryCleanup>>
viewerVars == <<status, viewerOnly>>
\* The refs and state of the hook that only a viewer's instance uses.
hookViewerOnly == <<fixedVars, peerConnection, processingOffers, answerInv, remoteStream>>
streamerVars == <<roomId, isStreaming, isInitializing, viewersRef, restartPos>>
serverVars == <<rooms, ioRooms, toServer, toStreamer, inbox>>
obsVars == <<answerCount, obs>>
vars == <<hookVars, viewerVars, streamerVars, serverVars, obsVars>>

\* ------------------------------------------------------------ sessions

\* A closed (or not yet created) RTCPeerConnection. close() fires no event.
NoPc == [conn |-> "closed", sig |-> "closed", desc |-> FALSE, handlers |-> FALSE,
         tracks |-> 0]
\* new RTCPeerConnection({ iceServers }) with the manager's callbacks registered.
NewPc == [conn |-> "new", sig |-> "stable", desc |-> FALSE, handlers |-> TRUE,
          tracks |-> 0]

None == [pending |-> FALSE, delay |-> 0, connected |-> FALSE, joining |-> FALSE,
         set |-> FALSE, orphans |-> 0]

\* Session ids some reference still names; the others can be given to a new session.
Referenced(pc, table, ainv, oinv) ==
  {pc} \cup {table[v] : v \in DOMAIN table}
       \cup ({i.target : i \in ainv} \ {0})
       \cup ({i.target : i \in oinv} \ {0})

FreeIds(store, pc, table, ainv, oinv) ==
  {n \in PcIds : store[n] = NoPc /\ n \notin Referenced(pc, table, ainv, oinv)}

MinOf(S) == CHOOSE n \in S : \A m \in S : n <= m

\* createAnswer: state === "failed" || state === "closed" || state === "disconnected"
neverTerminal(c) == FALSE
Terminal(c) == c \in {"failed", "closed", "disconnected"}

\* close() on a connection: the operations pending on it reject. The invocations
\* awaiting them are kept as "rejected" until they resume in their catch block.
rejectClosed(inv, store) ==
  {IF i.target # 0 /\ store[i.target] = NoPc
   THEN [i EXCEPT !.pos = "rejected", !.target = 0] ELSE i : i \in inv}

\* ------------------------------------------------- useWebRTC: createAnswer

\* if (processingOffers.current.has(streamerId)) return
neverProcessing(guard, s) == FALSE
alreadyProcessing(guard, s) == s \in guard

\* if (peerConnection.current.signalingState !== "stable") return
neverUnstable(pc) == FALSE
notStable(pc) == pc.sig # "stable"

\* The part of createAnswer(offer, streamerId) that runs before its first await,
\* on the refs h = [pc, pcs, guard, inv]. page: the call is the viewer page's.
createAnswerSync(h, o, s, page) ==
  IF alreadyProcessing(h.guard, s) THEN h
  ELSE
    LET \* Clean up failed or closed connections
        h1 == IF h.pc # 0 /\ Terminal(h.pcs[h.pc].conn)
              THEN [h EXCEPT !.pcs[h.pc] = NoPc, !.pc = 0,
                             !.inv = rejectClosed(@, [h.pcs EXCEPT ![h.pc] = NoPc])]
              ELSE h
        \* Initialize PeerConnection if needed
        n  == MinOf(FreeIds(h1.pcs, h1.pc, peerConnections, h1.inv, offerInv))
        h2 == IF h1.pc = 0
              THEN [h1 EXCEPT !.pcs[n] = NewPc, !.pc = n]
              ELSE h1
    IN  \* try { add; if (signalingState !== "stable") return ... } finally { delete }
        IF notStable(h2.pcs[h2.pc]) THEN h2
        ELSE [h2 EXCEPT !.guard = @ \cup {s},
                        !.inv = @ \cup {[offer |-> o, streamer |-> s, pos |-> "srd",
                                         target |-> h2.pc, page |-> page]}]

\* viewer page: shouldProcessOffer()
shouldProcessOffer ==
  /\ ~(isConnected /\ connectionState = "connected")
  /\ ~isProcessingOffer

\* Offer ids no suspended invocation names.
FreeOffers == {o \in OfferIds : \A i \in answerInv : i.offer # o}

\* React effects whose dependencies changed run before the next event.
RetryEffectPending ==
  retryDeps # <<connectionState, isConnected, isJoining, hasJoinedRoom>>
JoinEffectPending == joinDeps # <<hasJoinedRoom, isJoining>>
\* The attach effect is due, or video.play() has not settled: setRemoteStream was
\* called with a new stream.
AttachEffectPending == playback.attach
Idle == mounted /\ ~RetryEffectPending /\ ~JoinEffectPending

\* The relay delivers "offer" {offer, sender: s} to the viewer: the hook's listener
\* (registered first) calls createAnswer, then the page's onOffer runs.
socket_offer(s) ==
  /\ ~isStreamer /\ Idle
  /\ FreeOffers # {}
  /\ FreeIds(pcs, peerConnection, peerConnections, answerInv, offerInv) # {}
  /\ LET o  == MinOf(FreeOffers)
         h0 == [pc |-> peerConnection, pcs |-> pcs, guard |-> processingOffers,
                inv |-> answerInv]
         h1 == createAnswerSync(h0, o, s, FALSE)
         h2 == IF shouldProcessOffer THEN createAnswerSync(h1, o, s, TRUE) ELSE h1
         own == \E i \in h2.inv : i.offer = o /\ i.page
     IN /\ peerConnection' = h2.pc
        /\ pcs' = h2.pcs
        /\ processingOffers' = h2.guard
        /\ answerInv' = h2.inv
        /\ answerCount' = [answerCount EXCEPT ![o] = 0]
        \* setIsProcessingOffer(true) ... .finally(() => setIsProcessingOffer(false)):
        \* the flag stays set only while the page's own call is suspended.
        /\ isProcessingOffer' = IF own THEN TRUE ELSE isProcessingOffer
        /\ status' = IF shouldProcessOffer THEN "Negotiating WebRTC session..." ELSE status
        /\ obs' = [obs EXCEPT !.dropped = IF s \in processingOffers THEN TRUE ELSE @,
                              !.ignored = /\ s \notin processingOffers
                                          /\ peerConnection # 0
                                          /\ ~Terminal(pcs[peerConnection].conn)
                                          /\ notStable(pcs[peerConnection])]
  /\ UNCHANGED <<fixedVars, peerConnections, localStream, offerInv, connectionState,
                 isConnected, error, remoteStream, hasJoinedRoom, isJoining, retryCount,
                 retryTimer, joinPos, retryDeps, joinDeps, retryCleanup>>
  /\ UNCHANGED <<streamerVars, serverVars>>

\* processingOffers.current.delete(streamerId)
guardKept(guard, s) == guard
guardDelete(guard, s) == guard \ {s}

\* finally { processingOffers.current.delete(streamerId) }, and the page's
\* .finally(() => setIsProcessingOffer(false)) when the call was the page's.
createAnswerFinally(i) ==
  /\ obs' = [obs EXCEPT !.dropped = FALSE, !.ignored = FALSE]
  /\ processingOffers' = guardDelete(processingOffers, i.streamer)
  /\ answerInv' = answerInv \ {i}
  /\ isProcessingOffer' = IF i.page THEN FALSE ELSE isProcessingOffer

\* catch (err) { setError(err.message) }
createAnswerCatch(i) ==
  /\ error' = "WebRTC Answer Error"
  /\ createAnswerFinally(i)

\* await peerConnection.current.setRemoteDescription(offer) settles.
\* A closed connection rejects; the browser may reject any description (ok = FALSE).
createAnswer_afterSRD(i, ok) ==
  /\ ~isStreamer /\ Idle
  /\ i \in answerInv /\ i.pos = "srd"
  /\ IF ok
     THEN /\ pcs' = [pcs EXCEPT ![i.target].sig = "have-remote-offer"]
          \* pc.ontrack: setRemoteStream(event.streams[0])
          /\ remoteStream' = IF pcs[i.target].handlers THEN TRUE ELSE remoteStream
          /\ playback' = IF pcs[i.target].handlers
                         THEN [playback EXCEPT !.attach = TRUE] ELSE playback
          /\ IF peerConnection = 0
             THEN \* peerConnection.current.createAnswer() on null throws
                  createAnswerCatch(i)
             ELSE /\ answerInv' = (answerInv \ {i}) \cup
                                     {[i EXCEPT !.pos = "ca", !.target = peerConnection]}
                  /\ UNCHANGED <<processingOffers, isProcessingOffer, error, obs>>
     ELSE /\ createAnswerCatch(i)
          /\ UNCHANGED <<pcs, remoteStream, playback>>
  /\ UNCHANGED <<configVars, mounted, peerConnection, peerConnections, localStream, offerInv,
                 connectionState, isConnected, status, hasJoinedRoom, isJoining,
                 retryCount, retryTimer, joinPos, retryDeps, joinDeps, retryCleanup>>
  /\ UNCHANGED <<streamerVars, serverVars, answerCount>>

\* An operation pending on a connection that was closed rejects.
createAnswer_rejected(i) ==
  /\ ~isStreamer /\ Idle
  /\ i \in answerInv /\ i.pos = "rejected"
  /\ createAnswerCatch(i)
  /\ UNCHANGED <<fixedVars, peerConnection, peerConnections, pcs, localStream, offerInv,
                 connectionState, isConnected, remoteStream, status, hasJoinedRoom,
                 isJoining, retryCount, retryTimer, joinPos, retryDeps, joinDeps,
                 retryCleanup>>
  /\ UNCHANGED <<streamerVars, serverVars, answerCount>>

\* await peerConnection.current.createAnswer() settles.
createAnswer_afterCA(i, ok) ==
  /\ ~isStreamer /\ Idle
  /\ i \in answerInv /\ i.pos = "ca"
  /\ IF ok /\ pcs[i.target].sig = "have-remote-offer" /\ peerConnection # 0
     THEN /\ answerInv' = (answerInv \ {i}) \cup
                             {[i EXCEPT !.pos = "sld", !.target = peerConnection]}
          /\ UNCHANGED <<processingOffers, isProcessingOffer, error, obs>>
     ELSE createAnswerCatch(i)
  /\ UNCHANGED <<fixedVars, peerConnection, peerConnections, pcs, localStream, offerInv,
                 connectionState, isConnected, remoteStream, status, hasJoinedRoom,
                 isJoining, retryCount, retryTimer, joinPos, retryDeps, joinDeps,
                 retryCleanup>>
  /\ UNCHANGED <<streamerVars, serverVars, answerCount>>

\* socket?.emit("answer", { answer, target: streamerId })
emitAnswer(i) ==
  answerCount' = [answerCount EXCEPT ![i.offer] = @ + 1]

\* await peerConnection.current.setLocalDescription(answer) settles.
createAnswer_afterSLD(i, ok) ==
  /\ ~isStreamer /\ Idle
  /\ i \in answerInv /\ i.pos = "sld"
  /\ IF ok /\ pcs[i.target].sig = "have-remote-offer"
     THEN /\ pcs' = [pcs EXCEPT ![i.target].sig = "stable", ![i.target].desc = TRUE]
          /\ emitAnswer(i)
          /\ createAnswerFinally(i)
          /\ UNCHANGED error
     ELSE /\ createAnswerCatch(i)
          /\ UNCHANGED <<pcs, answerCount>>
  /\ UNCHANGED <<fixedVars, peerConnection, peerConnections, localStream, offerInv,
                 connectionState, isConnected, remoteStream, status, hasJoinedRoom,
                 isJoining, retryCount, retryTimer, joinPos, retryDeps, joinDeps,
                 retryCleanup>>
  /\ UNCHANGED <<streamerVars, serverVars>>

\* ------------------------------------- useWebRTC: connection state, cleanup

\* The browser's connectionState transitions of an open session. A session leaves
\* "new" once both descriptions are set; close() is not an event.
Transition(pc, st) ==
  \/ pc.conn = "new" /\ pc.desc /\ st = "connecting"
  \/ pc.conn = "connecting" /\ st \in {"connected", "failed"}
  \/ pc.conn = "connected" /\ st \in {"disconnected", "failed"}
  \/ pc.conn = "disconnected" /\ st \in {"connected", "failed"}

\* The sessions of the streamer's table.
Sessions(table) == {table[v] : v \in DOMAIN table} \ {0}

\* pc.onconnectionstatechange of a streamer-side session: the aggregate over
\* Array.from(peerConnections.current.values()).
onStateAggregate(table, store) ==
  LET all == Sessions(table) IN
  IF \E n \in all : store[n].conn = "connected" THEN "connected"
  ELSE IF all # {}
       THEN IF \E n \in all : store[n].conn = "connecting"
            THEN "connecting" ELSE "disconnected"
       ELSE "new"

\* The observation record: what happened since the last reset of the retry count.
\*   auto           automatic (timer-fired) reconnect sequences since the connection
\*                  was last published connected or reconnected by hand
\*   firedDelay     delay of the timer that fired the last of them, 0 if none
\*   schedSinceFire timers scheduled since that reconnect (counted to 2)
\*   schedSinceReset timers scheduled since the last join success or manual
\*                  reconnect (counted to 2)
\*   dropped        an offer was delivered while the guard held its sender, and
\*                  no createAnswer invocation has finished since
\*   ignored        the last offer delivered found the guard free and an open
\*                  session that was not stable, and no createAnswer invocation
\*                  has finished since
\*   owed           handleReconnect has run and joinRoom has not emitted
\*                  "join-room" since
ObsInit == [auto |-> 0, firedDelay |-> 0, schedSinceFire |-> 0, schedSinceReset |-> 0,
            dropped |-> FALSE, ignored |-> FALSE, owed |-> FALSE]

ObsConnected(o, st) ==
  IF st = "connected" THEN [o EXCEPT !.auto = 0, !.firedDelay = 0, !.schedSinceFire = 0]
  ELSE o

\* The browser changes session n's connectionState to st and fires
\* connectionstatechange on it.
pcConnectionStateChange(n, st) ==
  /\ isStreamer \/ Idle
  /\ pcs[n] # NoPc /\ Transition(pcs[n], st)
  /\ pcs' = [pcs EXCEPT ![n].conn = st]
  /\ IF ~pcs[n].handlers
     THEN UNCHANGED <<connectionState, isConnected, obs>>
     ELSE IF isStreamer
     THEN \* Streamer: derive overall state from all viewer connections
          LET agg == onStateAggregate(peerConnections, pcs') IN
          /\ connectionState' = agg
          /\ isConnected' = (agg = "connected")
          /\ UNCHANGED obs
     ELSE \* Viewer: if (peerConnection.current) { setConnectionState(pc.connectionState) ... }
          IF peerConnection # 0
          THEN /\ connectionState' = st
               /\ isConnected' = (st = "connected")
               /\ obs' = ObsConnected(obs, st)
          ELSE UNCHANGED <<connectionState, isConnected, obs>>
  /\ UNCHANGED <<fixedVars, peerConnection, peerConnections, localStream,
                 processingOffers, answerInv, offerInv, error, remoteStream>>
  /\ UNCHANGED <<viewerVars, streamerVars, serverVars, answerCount>>

\* The callbacks the hook assigns on a session it creates: the streamer in
\* createPeerConnectionForViewer, the viewer in createAnswer.
registeredCallbacks(streamer) ==
  IF streamer
  THEN {"onconnectionstatechange", "onicecandidate", "onicecandidateerror"}
  ELSE {"onconnectionstatechange", "onicecandidate", "ontrack"}

\* The callbacks cleanup() sets to null on a session before it calls close().
cleanupUnregistered(streamer) ==
  IF streamer
  THEN {"onconnectionstatechange"}
  ELSE {"onconnectionstatechange", "onicecandidate", "ontrack"}

\* cleanup(): stop the local tracks, close every session (the callbacks of
\* cleanupUnregistered set to null first), clear the guard set and reset the
\* hook's state.
cleanup ==
  /\ localStream' = 0
  /\ pcs' = [n \in PcIds |->
               IF n = peerConnection \/ n \in Sessions(peerConnections)
               THEN NoPc ELSE pcs[n]]
  /\ peerConnection' = 0
  /\ peerConnections' = [v \in DOMAIN peerConnections |-> 0]
  /\ processingOffers' = {}
  /\ answerInv' = rejectClosed(answerInv, pcs')
  /\ remoteStream' = FALSE
  /\ isConnected' = FALSE
  /\ connectionState' = "new"
  /\ error' = "none"

\* ------------------------------------------------------------ viewer page

\* joinRoom() up to its first await, as called from a closure that captured
\* isJoining = j and hasJoinedRoom = hj: if (isJoining || hasJoinedRoom) return.
joinRoomStart(j, hj) ==
  IF j \/ hj
  THEN UNCHANGED <<isJoining, joinPos>>
  ELSE /\ isJoining' = TRUE
       /\ joinPos' = "waiting"

\* handleReconnect: retryCountRef.current = 0
retryCountKept(c) == c
retryCountAfterReconnect(c) == 0

\* join-room success acknowledgement: retryCountRef.current = 0
retryCountAfterJoin(c) == 0

\* clearTimeout(retryTimeoutRef.current); retryTimeoutRef.current = null
timerLeftRunning(t) == t
clearRetryTimer(t) == IF t.set THEN [None EXCEPT !.orphans = t.orphans] ELSE t

\* setNeedsUserInteraction(false); setIsStreamPaused(false); setIsVideoPlaying(false)
playbackReset(p) ==
  [p EXCEPT !.paused = FALSE, !.playing = FALSE, !.needsInteraction = FALSE]

\* handleReconnect(): clear the scheduled retry, cleanup(), reset the count and the
\* flags, then joinRoom() through the closure of the render that created it.
handleReconnect ==
  /\ retryTimer' = clearRetryTimer(retryTimer)
  /\ playback' = playbackReset(playback)
  /\ cleanup
  /\ retryCount' = retryCountAfterReconnect(retryCount)
  /\ hasJoinedRoom' = FALSE
  /\ isProcessingOffer' = FALSE
  /\ joinRoomStart(isJoining, hasJoinedRoom)
  /\ status' = IF isJoining \/ hasJoinedRoom
               THEN "Reconnecting signaling + WebRTC..."
               ELSE "Joining signaling room..."
  /\ UNCHANGED <<configVars, mounted, offerInv, retryDeps, joinDeps, retryCleanup,
                 answerCount>>
  /\ UNCHANGED <<streamerVars, serverVars>>

ObsReset(o) ==
  [o EXCEPT !.auto = 0, !.firedDelay = 0, !.schedSinceFire = 0, !.schedSinceReset = 0]

\* A reconnect sequence has run and no join-room has been emitted since.
ObsReconnect(o) == [o EXCEPT !.owed = TRUE]

ObsScheduled(o) ==
  [o EXCEPT !.schedSinceFire = IF o.firedDelay # 0 /\ @ < 2 THEN @ + 1 ELSE @,
            !.schedSinceReset = IF @ < 2 THEN @ + 1 ELSE @]

\* const delay = 2000 * retryCountRef.current
retryDelayFixed(count) == RetryDelayUnit
retryDelay(count) == RetryDelayUnit * count

\* The auto-retry effect: the cleanup of its previous run, then its body.
retryEffect ==
  /\ ~isStreamer /\ mounted /\ RetryEffectPending
  /\ retryDeps' = <<connectionState, isConnected, isJoining, hasJoinedRoom>>
  /\ LET cleared == IF retryCleanup THEN clearRetryTimer(retryTimer) ELSE retryTimer
         \* if (retryTimeoutRef.current) clearTimeout(retryTimeoutRef.current)
         before  == clearRetryTimer(cleared)
         shouldRetry == connectionState = "failed" \/ connectionState = "disconnected"
     IN IF ~shouldRetry
        THEN /\ retryTimer' = cleared
             /\ retryCleanup' = FALSE
             /\ UNCHANGED <<retryCount, status, obs>>
        ELSE /\ retryCount < MaxCount
             /\ retryCount' = retryCount + 1
             /\ IF retryCount + 1 > MaxRetries
                THEN /\ status' = "WebRTC failed after multiple retries"
                     /\ retryTimer' = cleared
                     /\ retryCleanup' = FALSE
                     /\ UNCHANGED obs
                ELSE /\ retryTimer' = [pending |-> TRUE,
                                       delay |-> retryDelay(retryCount + 1),
                                       connected |-> isConnected,
                                       joining |-> isJoining, set |-> TRUE,
                                       orphans |-> IF before.pending /\ before.orphans < 2
                                                   THEN before.orphans + 1
                                                   ELSE before.orphans]
                     /\ retryCleanup' = TRUE
                     /\ obs' = ObsScheduled(obs)
                     /\ UNCHANGED status
  /\ UNCHANGED <<hookVars, hasJoinedRoom, isJoining, isProcessingOffer, joinPos, joinDeps>>
  /\ UNCHANGED <<streamerVars, serverVars, answerCount>>

\* The join-on-load effect: if (roomId && !hasJoinedRoom && !isJoining) void joinRoom()
joinEffect ==
  /\ ~isStreamer /\ mounted /\ ~RetryEffectPending /\ JoinEffectPending
  /\ joinDeps' = <<hasJoinedRoom, isJoining>>
  /\ IF ~hasJoinedRoom /\ ~isJoining
     THEN /\ joinRoomStart(isJoining, hasJoinedRoom)
          /\ status' = "Joining signaling room..."
          /\ error' = "none"
     ELSE UNCHANGED <<isJoining, joinPos, status, error>>
  /\ UNCHANGED <<fixedVars, peerConnection, peerConnections, pcs, localStream,
                 processingOffers, answerInv, offerInv, connectionState, isConnected,
                 remoteStream, hasJoinedRoom, isProcessingOffer, retryCount, retryTimer,
                 retryDeps, retryCleanup>>
  /\ UNCHANGED <<streamerVars, serverVars, obsVars>>

\* The retry timer fires: if (!webrtcConnected && !isJoining) void handleReconnect()
\* count: the step is counted in obs (SpecRetry counts, SpecViewer does not).
retryTimerFire(count) ==
  /\ ~isStreamer /\ Idle
  /\ retryTimer.pending
  /\ IF ~retryTimer.connected /\ ~retryTimer.joining
     THEN /\ count => obs.auto < MaxAuto
          /\ handleReconnect
          /\ obs' = ObsReconnect(IF count
                                  THEN [obs EXCEPT !.auto = @ + 1,
                                                   !.firedDelay = retryTimer.delay,
                                                   !.schedSinceFire = 0]
                                  ELSE obs)
     ELSE /\ retryTimer' = [retryTimer EXCEPT !.pending = FALSE]
          /\ UNCHANGED <<hookVars, status, hasJoinedRoom, isJoining, isProcessingOffer,
                         retryCount, joinPos, retryDeps, joinDeps, retryCleanup>>
          /\ UNCHANGED <<streamerVars, serverVars, obsVars>>

\* The Reconnect button: shown when error is set, disabled while joining or
\* processing an offer.
manualReconnect ==
  /\ ~isStreamer /\ Idle
  /\ error # "none" /\ ~isJoining /\ ~isProcessingOffer
  /\ handleReconnect
  /\ obs' = ObsReconnect(ObsReset(obs))

\* socket.on("reconnect", onReconnect)
socket_reconnect ==
  /\ ~isStreamer /\ Idle
  /\ handleReconnect
  /\ obs' = ObsReconnect(ObsReset(obs))

\* joinRoom() after await waitForSocketConnected(5000): socket.emit("join-room", roomId, cb)
joinRoom_emit ==
  /\ ~isStreamer /\ Idle
  /\ joinPos = "waiting"
  /\ joinPos' = "emitted"
  /\ obs' = [obs EXCEPT !.owed = FALSE]
  /\ UNCHANGED <<hookVars, status, hasJoinedRoom, isJoining, isProcessingOffer, retryCount,
                 retryTimer, retryDeps, joinDeps, retryCleanup>>
  /\ UNCHANGED <<streamerVars, serverVars, answerCount>>

\* The join-room acknowledgement callback.
joinRoom_ack(ok) ==
  /\ ~isStreamer /\ Idle
  /\ joinPos = "emitted"
  /\ joinPos' = "idle"
  /\ isJoining' = FALSE
  /\ IF ok
     THEN /\ hasJoinedRoom' = TRUE
          /\ status' = "Signaling connected - waiting for media stream..."
          /\ retryCount' = retryCountAfterJoin(retryCount)
          /\ obs' = [obs EXCEPT !.schedSinceReset = 0]
          /\ UNCHANGED error
     ELSE /\ error' = "Room does not exist"
          /\ status' = "Failed to join signaling room"
          /\ UNCHANGED <<hasJoinedRoom, retryCount, obs>>
  /\ UNCHANGED <<fixedVars, peerConnection, peerConnections, pcs, localStream,
                 processingOffers, answerInv, offerInv, connectionState, isConnected,
                 remoteStream, isProcessingOffer, retryTimer, retryDeps, joinDeps,
                 retryCleanup>>
  /\ UNCHANGED <<streamerVars, serverVars, answerCount>>

\* The hook's refs and state.
hookState == <<peerConnection, peerConnections, pcs, localStream, processingOffers,
               answerInv, offerInv, connectionState, isConnected, error, remoteStream>>

\* The attach effect: video.srcObject = remoteStream and video.play(), whose
\* promise settles (ok: playback started, otherwise autoplay was blocked).
attachEffect(ok) ==
  /\ ~isStreamer /\ mounted /\ AttachEffectPending
  /\ IF remoteStream
     THEN /\ playback' = IF ok
                         THEN [paused |-> FALSE, playing |-> TRUE,
                               needsInteraction |-> FALSE, attach |-> FALSE]
                         ELSE [playback EXCEPT !.playing = FALSE,
                                               !.needsInteraction = TRUE,
                                               !.attach = FALSE]
          /\ status' = IF ok THEN "Live stream" ELSE "Click to start playback"
     ELSE /\ ok
          /\ playback' = [playback EXCEPT !.attach = FALSE]
          /\ UNCHANGED status
  /\ UNCHANGED <<configVars, mounted, hookState, viewerOnly>>
  /\ UNCHANGED <<streamerVars, serverVars, obsVars>>

\* The Play Stream overlay button: playVideo().
playVideo(ok) ==
  /\ ~isStreamer /\ Idle
  /\ playback.needsInteraction /\ remoteStream
  /\ IF ok
     THEN /\ playback' = [paused |-> FALSE, playing |-> TRUE,
                          needsInteraction |-> FALSE, attach |-> playback.attach]
          /\ status' = "Live stream"
          /\ UNCHANGED error
     ELSE /\ error' = "Unable to start playback"
          /\ UNCHANGED <<playback, status>>
  /\ UNCHANGED <<configVars, mounted, peerConnection, peerConnections, pcs, localStream,
                 processingOffers, answerInv, offerInv, connectionState, isConnected,
                 remoteStream, viewerOnly>>
  /\ UNCHANGED <<streamerVars, serverVars, obsVars>>

\* onStreamPaused: setIsStreamPaused(true); setIsVideoPlaying(false)
playbackUnpaused(p) == p
playbackPaused(p) == [p EXCEPT !.paused = TRUE, !.playing = FALSE]

\* socket.on("stream-paused", onStreamPaused)
socket_streamPaused ==
  /\ ~isStreamer /\ Idle
  /\ playback' = playbackPaused(playback)
  /\ status' = "Stream paused - waiting to resume..."
  /\ UNCHANGED <<configVars, mounted, hookState, viewerOnly>>
  /\ UNCHANGED <<streamerVars, serverVars, obsVars>>

\* socket.on("stream-resumed", onStreamResumed)
socket_streamResumed ==
  /\ ~isStreamer /\ Idle
  /\ playback' = [playback EXCEPT !.paused = FALSE, !.needsInteraction = FALSE]
  /\ isProcessingOffer' = FALSE
  /\ status' = "Stream resuming - awaiting renegotiation..."
  /\ UNCHANGED <<configVars, mounted, hookState, hasJoinedRoom, isJoining, retryCount,
                 retryTimer, joinPos, retryDeps, joinDeps, retryCleanup>>
  /\ UNCHANGED <<streamerVars, serverVars, obsVars>>

\* The viewer page unmounts: the auto-retry effect's cleanup and the unmount
\* effect's cleanup clear the timer, then cleanup().
viewer_unmount ==
  /\ ~isStreamer /\ Idle
  /\ mounted' = FALSE
  /\ retryTimer' = clearRetryTimer(retryTimer)
  /\ cleanup
  /\ UNCHANGED <<configVars, playback, offerInv, status, hasJoinedRoom, isJoining,
                 isProcessingOffer, retryCount, joinPos, retryDeps, joinDeps,
                 retryCleanup>>
  /\ UNCHANGED <<streamerVars, serverVars, obsVars>>

\* ---------------------------------------------- useWebRTC: streamer side

\* The refs and state the streamer-side functions work on.
StreamerHook ==
  [table |-> peerConnections, pcs |-> pcs, inv |-> offerInv, local |-> localStream,
   error |-> error, state |-> connectionState]

\* A createPeerConnectionForViewer that stores the new session over the old one
\* without closing it.
createPeerConnectionLeaky(h, v) ==
  LET free == FreeIds(h.pcs, 0, h.table, {}, h.inv)
  IN  IF free = {} THEN h
      ELSE [h EXCEPT !.pcs[MinOf(free)] = NewPc, !.table[v] = MinOf(free)]

\* createPeerConnectionForViewer(viewerId): close and forget the viewer's session
\* if there is one, then create a session and store it. The aggregate state is
\* not recomputed here.
createPeerConnectionForViewer(h, v) ==
  LET old == h.table[v]
      h1  == IF old # 0
             THEN [h EXCEPT !.pcs[old] = NoPc, !.table[v] = 0,
                            !.inv = rejectClosed(@, [h.pcs EXCEPT ![old] = NoPc])]
             ELSE h
      free == FreeIds(h1.pcs, 0, h1.table, {}, h1.inv)
      \* new RTCPeerConnection(): ids name no object once it is closed and
      \* unreferenced, so the new one can take the id the viewer's number gives
      n   == IF v \in free THEN v ELSE MinOf(free)
  IN  [h1 EXCEPT !.pcs[n] = NewPc, !.table[v] = n]

\* if (!localStream.current)
localNeverMissing(h) == FALSE
localMissing(h) == h.local = 0

\* createOffer(viewerId) up to its first await (pc.createOffer()).
createOfferSync(h, v) ==
  IF localMissing(h)
  THEN [h EXCEPT !.error = "Local stream not ready"]
  ELSE LET h1 == createPeerConnectionForViewer(h, v)
           n  == h1.table[v]
       IN  \* every track of the local stream is added: a new session has no sender
           [h1 EXCEPT !.pcs[n].tracks = 1,
                      !.inv = @ \cup {[viewer |-> v, pos |-> "co", target |-> n]}]

\* viewersRef.current.forEach(viewerId => { createOffer(viewerId) })
RECURSIVE createOffers(_, _)
createOffers(h, S) ==
  IF S = {} THEN h
  ELSE LET v == MinOf(S) IN createOffers(createOfferSync(h, v), S \ {v})

\* The frame of an action that runs streamer-side hook functions on StreamerHook.
SetStreamerHook(h) ==
  /\ peerConnections' = h.table
  /\ pcs' = h.pcs
  /\ offerInv' = h.inv
  /\ localStream' = h.local
  /\ error' = h.error
  /\ connectionState' = h.state
  /\ isConnected' = (h.state = "connected")

Msg(type, who) == [type |-> type, who |-> who]

\* await pc.createOffer() settles.
createOffer_afterCO(i, ok) ==
  /\ isStreamer
  /\ i \in offerInv /\ i.pos = "co"
  /\ IF ok
     THEN /\ offerInv' = (offerInv \ {i}) \cup {[i EXCEPT !.pos = "sld"]}
          /\ UNCHANGED error
     ELSE /\ offerInv' = offerInv \ {i}
          /\ error' = "err.message"
  /\ UNCHANGED <<hookViewerOnly, peerConnections, pcs, localStream, connectionState,
                 isConnected>>
  /\ UNCHANGED <<viewerVars, streamerVars, serverVars, obsVars>>

\* An operation pending on a session that was closed rejects.
createOffer_rejected(i) ==
  /\ isStreamer
  /\ i \in offerInv /\ i.pos = "rejected"
  /\ offerInv' = offerInv \ {i}
  /\ error' = "err.message"
  /\ UNCHANGED <<hookViewerOnly, peerConnections, pcs, localStream, connectionState,
                 isConnected>>
  /\ UNCHANGED <<viewerVars, streamerVars, serverVars, obsVars>>

\* await pc.setLocalDescription(offer) settles; then
\* socket.emit("offer", { offer, target: viewerId }).
createOffer_afterSLD(i, ok) ==
  /\ isStreamer
  /\ i \in offerInv /\ i.pos = "sld"
  /\ offerInv' = offerInv \ {i}
  /\ IF ok
     THEN /\ Len(toServer) < MaxQueue
          /\ pcs' = [pcs EXCEPT ![i.target].sig = "have-local-offer"]
          /\ toServer' = Append(toServer, Msg("offer", i.viewer))
          /\ UNCHANGED error
     ELSE /\ error' = "err.message"
          /\ UNCHANGED <<pcs, toServer>>
  /\ UNCHANGED <<hookViewerOnly, peerConnections, localStream, connectionState,
                 isConnected>>
  /\ UNCHANGED <<viewerVars, streamerVars, rooms, ioRooms, toStreamer, inbox, obsVars>>

\* handleAnswer(answer, viewerId): the sessions and the error it leaves. Without
\* a session for the viewer it returns at once; setRemoteDescription rejects
\* (ok = FALSE, or the session is not in have-local-offer) into setError.
handleAnswerAlways(table, store, err, v, ok) ==
  [pcs |-> store, error |-> "err.message"]
handleAnswer(table, store, err, v, ok) ==
  LET n == table[v] IN
  IF n = 0 THEN [pcs |-> store, error |-> err]
  ELSE IF ok /\ store[n].sig = "have-local-offer"
       THEN [pcs |-> [store EXCEPT ![n].sig = "stable", ![n].desc = TRUE], error |-> err]
       ELSE [pcs |-> store, error |-> "err.message"]

\* The relay delivers "answer" {answer, sender: v} to the streamer.
socket_answer(v, ok) ==
  /\ isStreamer
  /\ toStreamer # <<>> /\ Head(toStreamer) = Msg("answer", v)
  /\ toStreamer' = Tail(toStreamer)
  /\ LET r == handleAnswer(peerConnections, pcs, error, v, ok) IN
     pcs' = r.pcs /\ error' = r.error
  /\ UNCHANGED <<hookViewerOnly, peerConnections, localStream, offerInv, connectionState,
                 isConnected>>
  /\ UNCHANGED <<viewerVars, streamerVars, rooms, ioRooms, toServer, inbox, obsVars>>

\* The session handleIceCandidate calls addIceCandidate on, 0 for none: the
\* one the ref holds when the candidate arrives (peerConnections.get(senderId)
\* on the streamer, peerConnection.current on the viewer). Nothing is kept of
\* a candidate that finds none.
iceCandidateLater(streamer, table, pc, peer) == MinOf(PcIds)
iceCandidateTarget(streamer, table, pc, peer) ==
  IF streamer THEN table[peer] ELSE pc

\* handleIceCandidate(candidate, senderId): the error it leaves. The session is
\* the sender's entry of the table on the streamer and the single session on
\* the viewer; without one nothing is done, and addIceCandidate rejecting
\* (ok = FALSE) goes to setError.
handleIceCandidate(streamer, table, pc, err, peer, ok) ==
  LET n == iceCandidateTarget(streamer, table, pc, peer) IN
  IF n = 0 \/ ok THEN err ELSE "err.message"

\* The relay delivers "ice-candidate" {candidate, sender: v} to the streamer.
streamer_iceCandidate(v, ok) ==
  /\ isStreamer /\ mounted
  /\ error' = handleIceCandidate(TRUE, peerConnections, peerConnection, error, v, ok)
  /\ UNCHANGED <<fixedVars, peerConnection, peerConnections, pcs, localStream,
                 processingOffers, answerInv, offerInv, connectionState, isConnected,
                 remoteStream>>
  /\ UNCHANGED <<viewerVars, streamerVars, serverVars, obsVars>>

\* The relay delivers "ice-candidate" {candidate, sender} to the viewer.
viewer_iceCandidate(ok) ==
  /\ ~isStreamer /\ Idle
  /\ error' = handleIceCandidate(FALSE, peerConnections, peerConnection, error, 0, ok)
  /\ UNCHANGED <<fixedVars, peerConnection, peerConnections, pcs, localStream,
                 processingOffers, answerInv, offerInv, connectionState, isConnected,
                 remoteStream>>
  /\ UNCHANGED <<viewerVars, streamerVars, serverVars, obsVars>>

\* cleanupViewerConnection(viewerId)
sessionKept(h, v) == h
cleanupViewerConnection(h, v) ==
  LET old == h.table[v]
      h1  == [h EXCEPT !.pcs[old] = NoPc, !.table[v] = 0,
                       !.inv = rejectClosed(@, [h.pcs EXCEPT ![old] = NoPc])]
      all == Sessions(h1.table)
  IN  IF old = 0 THEN h
      ELSE [h1 EXCEPT !.state =
              IF \E n \in all : h1.pcs[n].conn = "connected" THEN "connected"
              ELSE IF all # {} THEN "connecting" ELSE "new"]

\* stopLocalStream(): stop the tracks and forget the stream.
stopLocalStream(h) == [h EXCEPT !.local = 0]

\* ---------------------------------------------------------- streamer page

\* The Start button: initializeStream() up to await startStreamCore().
initializeStream ==
  /\ isStreamer
  /\ ~isStreaming /\ roomId = "" /\ ~isInitializing
  /\ isInitializing' = TRUE
  /\ error' = "none"
  /\ status' = "Requesting camera access..."
  /\ restartPos' = "init_media"
  /\ UNCHANGED <<hookViewerOnly, peerConnections, pcs, localStream, offerInv,
                 connectionState, isConnected>>
  /\ UNCHANGED <<viewerOnly, roomId, isStreaming, viewersRef, serverVars, obsVars>>

\* startStreamCore() settles: the stream was acquired and attached ("ok"),
\* getUserMedia failed ("nomedia"), or the video element failed ("noattach").
MediaOutcomes == {"ok", "nomedia", "noattach"}

\* setError(err.message): the text is the browser's, but for "Video loading failed".
mediaError(outcome) ==
  IF outcome = "nomedia" THEN "err.message" ELSE "Video loading failed"

localStreamAfter(outcome, local) == IF outcome = "nomedia" THEN local ELSE 1

\* initializeStream() after await startStreamCore(): on success createRoom()
\* emits "create-room".
initializeStream_afterMedia(outcome) ==
  /\ isStreamer
  /\ restartPos = "init_media"
  /\ localStream' = localStreamAfter(outcome, localStream)
  /\ IF outcome = "ok"
     THEN /\ Len(toServer) < MaxQueue
          /\ isStreaming' = TRUE
          /\ status' = "Starting camera..."
          /\ toServer' = Append(toServer, Msg("create-room", 0))
          /\ restartPos' = "init_room"
          /\ UNCHANGED <<error, isInitializing>>
     ELSE /\ error' = mediaError(outcome)
          /\ status' = "Initialization failed"
          /\ isStreaming' = FALSE
          /\ isInitializing' = FALSE
          /\ restartPos' = "idle"
          /\ UNCHANGED toServer
  /\ UNCHANGED <<hookViewerOnly, peerConnections, pcs, offerInv, connectionState,
                 isConnected>>
  /\ UNCHANGED <<viewerOnly, roomId, viewersRef, rooms, ioRooms, toStreamer, inbox,
                 obsVars>>

\* The create-room acknowledgement: setRoomId(newRoomId).
createRoom_ack ==
  /\ isStreamer
  /\ toStreamer # <<>> /\ Head(toStreamer).type = "room-created"
  /\ toStreamer' = Tail(toStreamer)
  /\ roomId' = DEV_ROOM_ID
  /\ status' = "Ready - share the room link to invite viewers"
  /\ isInitializing' = FALSE
  /\ restartPos' = "idle"
  /\ UNCHANGED <<hookVars, viewerOnly, isStreaming, viewersRef, rooms, ioRooms, toServer,
                 inbox, obsVars>>

\* The pause button: stopStream().
stopStream ==
  /\ isStreamer
  /\ isStreaming
  /\ roomId # "" => Len(toServer) < MaxQueue
  /\ SetStreamerHook(stopLocalStream(StreamerHook))
  /\ isStreaming' = FALSE
  /\ status' = "Stream paused - press Play to resume"
  /\ toServer' = IF roomId # "" THEN Append(toServer, Msg("stream-paused", 0))
                 ELSE toServer
  /\ UNCHANGED <<hookViewerOnly, viewerOnly, roomId, isInitializing, viewersRef,
                 restartPos, rooms, ioRooms, toStreamer, inbox, obsVars>>

\* The resume button: restartStream() up to await startStreamCore().
restartStream ==
  /\ isStreamer
  /\ ~isStreaming /\ roomId # "" /\ restartPos = "idle"
  /\ Len(toServer) < MaxQueue
  /\ isInitializing' = TRUE
  /\ error' = "none"
  /\ status' = "Resuming stream..."
  /\ toServer' = Append(toServer, Msg("stream-resumed", 0))
  /\ restartPos' = "resume_media"
  /\ UNCHANGED <<hookViewerOnly, peerConnections, pcs, localStream, offerInv,
                 connectionState, isConnected>>
  /\ UNCHANGED <<viewerOnly, roomId, isStreaming, viewersRef, rooms, ioRooms, toStreamer,
                 inbox, obsVars>>

\* The viewers restartStream() re-sends an offer to: viewersRef.current.
resumeNobody(known) == {}
resumeTargets(known) == known

\* restartStream() after await startStreamCore(): on success one createOffer per
\* viewer of viewersRef.
restartStream_afterMedia(outcome) ==
  /\ isStreamer
  /\ restartPos = "resume_media"
  /\ restartPos' = "idle"
  /\ isInitializing' = FALSE
  /\ LET h0 == [StreamerHook EXCEPT !.local = localStreamAfter(outcome, localStream)]
         to == resumeTargets(viewersRef)
     IN IF outcome = "ok"
        THEN /\ isStreaming' = TRUE
             /\ status' = "Streaming live"
             /\ SetStreamerHook(createOffers(h0, to))
        ELSE /\ SetStreamerHook([h0 EXCEPT !.error = mediaError(outcome)])
             /\ status' = "Restart failed"
             /\ UNCHANGED isStreaming
  /\ UNCHANGED <<hookViewerOnly, viewerOnly, roomId, viewersRef, serverVars, obsVars>>

\* socket.on("viewer-joined", onViewerJoined)
onViewerJoined(v) ==
  /\ isStreamer
  /\ toStreamer # <<>> /\ Head(toStreamer) = Msg("viewer-joined", v)
  /\ toStreamer' = Tail(toStreamer)
  /\ viewersRef' = viewersRef \cup {v}
  /\ status' = "Viewer connected"
  /\ SetStreamerHook(createOfferSync(StreamerHook, v))
  /\ UNCHANGED <<hookViewerOnly, viewerOnly, roomId, isStreaming, isInitializing,
                 restartPos, rooms, ioRooms, toServer, inbox, obsVars>>

\* socket.on("viewer-left", onViewerLeft)
onViewerLeft(v) ==
  /\ isStreamer
  /\ toStreamer # <<>> /\ Head(toStreamer) = Msg("viewer-left", v)
  /\ toStreamer' = Tail(toStreamer)
  /\ SetStreamerHook(cleanupViewerConnection(StreamerHook, v))
  /\ viewersRef' = viewersRef \ {v}
  /\ status' = IF viewersRef \ {v} # {} THEN "Streaming live (n watching)"
               ELSE "Ready - waiting for viewers to connect"
  /\ UNCHANGED <<hookViewerOnly, viewerOnly, roomId, isStreaming, isInitializing,
                 restartPos, rooms, ioRooms, toServer, inbox, obsVars>>

\* The streamer page unmounts (or beforeunload fires): cleanup(). The
\* createOffer invocations suspended on a closed session reject.
streamer_unmount ==
  /\ isStreamer /\ mounted
  /\ mounted' = FALSE
  /\ cleanup
  /\ offerInv' = rejectClosed(offerInv, pcs')
  /\ UNCHANGED <<configVars, playback, viewerVars, streamerVars, serverVars, obsVars>>

\* ------------------------------------------------------- signaling server

\* socket.to(room): every socket of the room but the sender.
noBroadcast(members, sender) == {}
roomBroadcast(members, sender) == members \ {sender}

\* The messages of `to` with message m appended for every viewer socket in targets.
Deliver(to, targets, m) ==
  [v \in Viewers |-> IF v \in targets THEN Append(to[v], m) ELSE to[v]]

HasSpace(targets) == \A v \in targets \cap Viewers : Len(inbox[v]) < MaxQueue

\* socket.on("create-room", callback) on the streamer's socket.
server_createRoom ==
  /\ toServer # <<>> /\ Head(toServer).type = "create-room"
  /\ Len(toStreamer) < MaxQueue
  /\ toServer' = Tail(toServer)
  /\ rooms' = [rooms EXCEPT ![DEV_ROOM_ID] =
                 [exists |-> TRUE, streamer |-> StreamerSocket, viewers |-> {}]]
  /\ ioRooms' = [ioRooms EXCEPT ![DEV_ROOM_ID] = @ \cup {StreamerSocket}]
  /\ toStreamer' = Append(toStreamer, Msg("room-created", 0))
  /\ UNCHANGED <<hookVars, viewerVars, streamerVars, inbox, obsVars>>

\* Nothing names viewer v any more: a socket that connects can get the id.
Fresh(v) ==
  /\ v \notin viewersRef /\ peerConnections[v] = 0
  /\ \A i \in offerInv : i.viewer # v
  /\ \A k \in 1..Len(toServer) : toServer[k].who # v
  /\ \A k \in 1..Len(toStreamer) : toStreamer[k].who # v
  /\ inbox[v] = <<>>

\* socket.on("join-room", (roomId, callback)) on viewer v's socket.
server_joinRoom(v) ==
  /\ LET room == rooms[DEV_ROOM_ID] IN
     IF ~room.exists
     THEN \* callback({ error: "Room does not exist" })
          UNCHANGED <<rooms, ioRooms, toStreamer>>
     ELSE IF v \in room.viewers
     THEN \* Prevent duplicate joins
          UNCHANGED <<rooms, ioRooms, toStreamer>>
     ELSE /\ Fresh(v)
          /\ Len(toStreamer) < MaxQueue
          /\ rooms' = [rooms EXCEPT ![DEV_ROOM_ID].viewers = @ \cup {v}]
          /\ ioRooms' = [ioRooms EXCEPT ![DEV_ROOM_ID] = @ \cup {v}]
          /\ toStreamer' = Append(toStreamer, Msg("viewer-joined", v))
  /\ UNCHANGED <<hookVars, viewerVars, streamerVars, toServer, inbox, obsVars>>

\* socket.on("disconnect") on viewer v's socket; socket.io takes the socket out
\* of its rooms and drops what was queued for it.
server_disconnect(v) ==
  /\ v \in ioRooms[DEV_ROOM_ID]
  /\ ioRooms' = [ioRooms EXCEPT ![DEV_ROOM_ID] = @ \ {v}]
  /\ inbox' = [inbox EXCEPT ![v] = <<>>]
  /\ LET room == rooms[DEV_ROOM_ID] IN
     IF room.exists /\ v \in room.viewers
     THEN /\ Len(toStreamer) < MaxQueue
          /\ rooms' = [rooms EXCEPT ![DEV_ROOM_ID].viewers = @ \ {v}]
          /\ toStreamer' = Append(toStreamer, Msg("viewer-left", v))
     ELSE UNCHANGED <<rooms, toStreamer>>
  /\ UNCHANGED <<hookVars, viewerVars, streamerVars, toServer, obsVars>>

\* socket.on("offer", data): relay to data.target (dropped if it is gone).
server_offer ==
  /\ toServer # <<>> /\ Head(toServer).type = "offer"
  /\ LET v == Head(toServer).who
         targets == {v} \cap ioRooms[DEV_ROOM_ID]
     IN /\ HasSpace(targets)
        /\ inbox' = Deliver(inbox, targets, Msg("offer", 0))
  /\ toServer' = Tail(toServer)
  /\ UNCHANGED <<hookVars, viewerVars, streamerVars, rooms, ioRooms, toStreamer, obsVars>>

\* socket.on("stream-paused", roomId) / socket.on("stream-resumed", roomId):
\* socket.to(roomId).emit(type)
server_streamEvent(type) ==
  /\ toServer # <<>> /\ Head(toServer).type = type
  /\ LET targets == roomBroadcast(ioRooms[DEV_ROOM_ID], StreamerSocket)
     IN /\ HasSpace(targets)
        /\ inbox' = Deliver(inbox, targets, Msg(type, 0))
  /\ toServer' = Tail(toServer)
  /\ UNCHANGED <<hookVars, viewerVars, streamerVars, rooms, ioRooms, toStreamer, obsVars>>

\* Viewer v's page takes the next message off its socket. For an offer it may
\* answer: socket.on("answer", data) on the server relays it to the streamer.
server_answer(v) ==
  /\ inbox[v] # <<>> /\ Head(inbox[v]).type = "offer"
  /\ Len(toStreamer) < MaxQueue
  /\ inbox' = [inbox EXCEPT ![v] = Tail(@)]
  /\ toStreamer' = Append(toStreamer, Msg("answer", v))
  /\ UNCHANGED <<hookVars, viewerVars, streamerVars, rooms, ioRooms, toServer, obsVars>>

viewer_receive(v) ==
  /\ inbox[v] # <<>>
  /\ inbox' = [inbox EXCEPT ![v] = Tail(@)]
  /\ UNCHANGED <<hookVars, viewerVars, streamerVars, rooms, ioRooms, toServer, toStreamer,
                 obsVars>>

\* ------------------------------------------- signaling server on its own

\* rooms.get(roomId) === undefined (the other fields are not read then).
NoRoom == [exists |-> FALSE, streamer |-> StreamerSocket, viewers |-> {}]

\* Socket ids of the server-only specification; a client may name any of them
\* as the target of a relayed message, connected or not.
SocketIds == 1..NumSockets
\* Math.random().toString(36).substring(2, 15): the ids production mode can draw.
RandomRoomIds == {"k3x9q1", "p7m2z8"}
RoomIds == {DEV_ROOM_ID} \cup RandomRoomIds
\* Session descriptions and candidates clients send through the relay.
Payloads == {"sdp-a", "sdp-b"}

\* Everything but the server's own state and the two configuration values.
clientVars ==
  <<peerConnection, peerConnections, pcs, localStream, processingOffers, answerInv,
    offerInv, connectionState, isConnected, error, remoteStream, viewerVars,
    streamerVars, toServer, toStreamer, inbox, obsVars, playback, mounted>>

\* One event reaching the server: its name, the socket it arrived on, and its
\* arguments (room id, data.target, payload; "" and 0 where it has none).
Req(event, from, room, target, payload) ==
  [event |-> event, from |-> from, room |-> room, target |-> target,
   payload |-> payload]
NoRequest == Req("none", 0, "", 0, "")

\* One message leaving the server: an event emitted to socket `to`, or the
\* acknowledgement passed to the sender's callback. sender and who are socket
\* ids (0 for none); text is a room id, an error text or a payload; for a room
\* broadcast, which has no payload, it names the room addressed.
Out(to, event, sender, who, text) ==
  [to |-> to, event |-> event, sender |-> sender, who |-> who, text |-> text]

\* socket.to(x).emit(...): one message per socket of targets, lowest id first.
RECURSIVE Emit(_, _, _, _, _)
Emit(targets, event, sender, who, text) ==
  IF targets = {} THEN <<>>
  ELSE LET t == MinOf(targets) IN
       <<Out(t, event, sender, who, text)>> \o
         Emit(targets \ {t}, event, sender, who, text)

\* socket.to(id): the socket with that id if it is connected, but never the sender.
noEndpoint(live, target, sender) == {}
toSocket(live, target, sender) == ({target} \cap live) \ {sender}

\* io.on("connection"): a socket connects under an id nothing refers to.
io_connection(s) ==
  /\ s \notin sockets
  /\ \A r \in RoomIds : s \notin ioRooms[r] /\ s \notin rooms[r].viewers
                        /\ ~(rooms[r].exists /\ rooms[r].streamer = s)
  /\ sockets' = sockets \cup {s}
  /\ request' = Req("connection", s, "", 0, "")
  /\ wire' = <<>>
  /\ UNCHANGED <<clientVars, isStreamer, isDevelopment, rooms, ioRooms>>

\* The room id create-room uses: fixed in development, random in production
\* (an id no room and no socket.io room uses).
createRoomIds ==
  IF isDevelopment THEN {DEV_ROOM_ID}
  ELSE {r \in RandomRoomIds : ~rooms[r].exists /\ ioRooms[r] = {}}

\* rooms.set(roomId, { streamer: socket.id, viewers: new Set() })
roomUnowned(registry, r, s) ==
  [registry EXCEPT ![r] = [exists |-> TRUE, streamer |-> 0, viewers |-> {}]]
roomSet(registry, r, s) ==
  [registry EXCEPT ![r] = [exists |-> TRUE, streamer |-> s, viewers |-> {}]]

\* socket.on("create-room", callback) on socket s.
on_createRoom(s, r) ==
  /\ s \in sockets /\ r \in createRoomIds
  /\ request' = Req("create-room", s, "", 0, "")
  /\ rooms' = roomSet(rooms, r, s)
  /\ ioRooms' = [ioRooms EXCEPT ![r] = @ \cup {s}]
  /\ wire' = <<Out(s, "create-room:ack", 0, 0, r)>>
  /\ UNCHANGED <<clientVars, isStreamer, isDevelopment, sockets>>

\* if (!room)
roomNeverMissing(room) == FALSE
roomMissing(room) == ~room.exists

\* room.viewers.has(socket.id)
neverViewer(room, s) == FALSE
alreadyViewer(room, s) == s \in room.viewers

\* room.viewers.add(socket.id)
viewersAdd(viewers, s) == viewers \cup {s}

\* socket.on("join-room", (roomId, callback)) on socket s.
on_joinRoom(s, r) ==
  /\ s \in sockets
  /\ request' = Req("join-room", s, r, 0, "")
  /\ IF roomMissing(rooms[r])
     THEN /\ wire' = <<Out(s, "join-room:error", 0, 0, "Room does not exist")>>
          /\ UNCHANGED <<rooms, ioRooms>>
     ELSE IF alreadyViewer(rooms[r], s)
     THEN /\ wire' = <<Out(s, "join-room:success", 0, 0, r)>>
          /\ UNCHANGED <<rooms, ioRooms>>
     ELSE /\ rooms' = [rooms EXCEPT ![r].viewers = viewersAdd(@, s)]
          /\ ioRooms' = [ioRooms EXCEPT ![r] = @ \cup {s}]
          /\ wire' = Emit(toSocket(sockets, rooms[r].streamer, s), "viewer-joined", 0, s, r)
                       \o <<Out(s, "join-room:success", 0, 0, r)>>
  /\ UNCHANGED <<clientVars, isStreamer, isDevelopment, sockets>>

RelayEvents == {"offer", "answer", "ice-candidate"}

\* socket.on("offer" | "answer" | "ice-candidate", data) on socket s, with
\* data.target = t and the description or candidate p.
on_relay(event, s, t, p) ==
  /\ s \in sockets
  /\ request' = Req(event, s, "", t, p)
  /\ wire' = Emit(toSocket(sockets, t, s), event, s, 0, p)
  /\ UNCHANGED <<clientVars, isStreamer, isDevelopment, sockets, rooms, ioRooms>>

\* socket.on("stream-paused" | "stream-resumed", roomId) on socket s.
on_streamEvent(event, s, r) ==
  /\ s \in sockets
  /\ request' = Req(event, s, r, 0, "")
  /\ wire' = Emit(roomBroadcast(ioRooms[r], s), event, 0, 0, r)
  /\ UNCHANGED <<clientVars, isStreamer, isDevelopment, sockets, rooms, ioRooms>>

\* The disconnect handler's loop body for one room of the Map.
roomSurvives(room, s) == room
roomAfterDisconnect(room, s) ==
  IF room.exists /\ room.streamer = s THEN NoRoom
  ELSE IF room.exists /\ s \in room.viewers THEN [room EXCEPT !.viewers = @ \ {s}]
  ELSE room

\* What the loop body emits for room r, whose socket.io members are members.
disconnectEmits(room, members, live, r, s) ==
  IF room.exists /\ room.streamer = s
  THEN Emit(roomBroadcast(members, s), "streamer-left", 0, 0, r)
  ELSE IF room.exists /\ s \in room.viewers
  THEN Emit(toSocket(live, room.streamer, s), "viewer-left", 0, s, r)
  ELSE <<>>

\* The rooms in the order the loop visits them.
RECURSIVE disconnectLoop(_, _)
disconnectLoop(todo, s) ==
  IF todo = {} THEN <<>>
  ELSE LET r == CHOOSE x \in todo : \A y \in todo : x = y \/ x # y IN
       disconnectEmits(rooms[r], ioRooms[r] \ {s}, sockets \ {s}, r, s)
         \o disconnectLoop(todo \ {r}, s)

\* socket.on("disconnect") on socket s; socket.io has taken s out of its rooms.
on_disconnect(s) ==
  /\ s \in sockets
  /\ sockets' = sockets \ {s}
  /\ request' = Req("disconnect", s, "", 0, "")
  /\ ioRooms' = [r \in RoomIds |-> ioRooms[r] \ {s}]
  /\ rooms' = [r \in RoomIds |-> roomAfterDisconnect(rooms[r], s)]
  /\ wire' = disconnectLoop(RoomIds, s)
  /\ UNCHANGED <<clientVars, isStreamer, isDevelopment>>

\* ------------------------------------------------------ initial states

HookInit(streamer) ==
  /\ isStreamer = streamer
  /\ peerConnection = 0
  /\ peerConnections = [v \in Viewers |-> 0]
  /\ pcs = [n \in PcIds |-> NoPc]
  /\ localStream = 0
  /\ processingOffers = {}
  /\ answerInv = {}
  /\ offerInv = {}
  /\ connectionState = "new"
  /\ isConnected = FALSE
  /\ error = "none"
  /\ remoteStream = FALSE

\* useState(false) for the three playback flags; no attach effect is due.
PlaybackInit ==
  [paused |-> FALSE, playing |-> FALSE, needsInteraction |-> FALSE, attach |-> FALSE]

ViewerPageInit ==
  /\ hasJoinedRoom = FALSE
  /\ isJoining = FALSE
  /\ isProcessingOffer = FALSE
  /\ retryCount = 0
  /\ retryTimer = None
  /\ joinPos = "idle"
  /\ retryDeps = <<>>
  /\ joinDeps = <<>>
  /\ retryCleanup = FALSE
  /\ playback = PlaybackInit
  /\ mounted = TRUE

StreamerPageInit ==
  /\ roomId = ""
  /\ isStreaming = FALSE
  /\ isInitializing = FALSE
  /\ viewersRef = {}
  /\ restartPos = "idle"

ServerInit ==
  /\ rooms = [r \in {DEV_ROOM_ID} |-> NoRoom]
  /\ ioRooms = [r \in {DEV_ROOM_ID} |-> {}]
  /\ toServer = <<>>
  /\ toStreamer = <<>>
  /\ inbox = [v \in Viewers |-> <<>>]
  /\ isDevelopment = TRUE
  /\ sockets = {}
  /\ request = NoRequest
  /\ wire = <<>>

ObsVarsInit ==
  /\ answerCount = [o \in OfferIds |-> 0]
  /\ obs = ObsInit

\* ------------------------------------------------ the viewer specification

InitViewer ==
  /\ HookInit(FALSE)
  /\ status = "Connecting..."
  /\ ViewerPageInit
  /\ StreamerPageInit
  /\ ServerInit
  /\ ObsVarsInit

NextViewer ==
  \/ \E s \in Streamers : socket_offer(s)
  \/ \E i \in answerInv, ok \in BOOLEAN : createAnswer_afterSRD(i, ok)
  \/ \E i \in answerInv, ok \in BOOLEAN : createAnswer_afterCA(i, ok)
  \/ \E i \in answerInv, ok \in BOOLEAN : createAnswer_afterSLD(i, ok)
  \/ \E i \in answerInv : createAnswer_rejected(i)
  \/ \E n \in PcIds, st \in {"connecting", "connected", "disconnected", "failed"} :
        ~isStreamer /\ pcConnectionStateChange(n, st)
  \/ retryEffect
  \/ joinEffect
  \/ retryTimerFire(FALSE)
  \/ manualReconnect
  \/ socket_reconnect
  \/ joinRoom_emit
  \/ \E ok \in BOOLEAN : joinRoom_ack(ok)

SpecViewer == InitViewer /\ [][NextViewer]_vars

\* The viewer with its scheduling: React runs a pending effect; a joinRoom
\* waiting for the socket goes on to emit, and the relay acknowledges a
\* join-room request, whatever else the page handles in between.
SpecRejoin ==
  /\ SpecViewer
  /\ WF_vars(retryEffect)
  /\ WF_vars(joinEffect)
  /\ SF_vars(joinRoom_emit)
  /\ SF_vars(\E ok \in BOOLEAN : joinRoom_ack(ok))

\* The viewer when the relay is free never to acknowledge a join-room request:
\* React runs a pending effect and a joinRoom waiting for the socket goes on to
\* emit, and nothing else is promised.
SpecJoin ==
  /\ SpecViewer
  /\ WF_vars(retryEffect)
  /\ WF_vars(joinEffect)
  /\ SF_vars(joinRoom_emit)

\* The viewer page with its playback flags, the pause and resume broadcasts and
\* the unmount; every description is accepted.
NextPage ==
  \/ \E s \in Streamers : answerInv = {} /\ socket_offer(s)
  \/ \E i \in answerInv : createAnswer_afterSRD(i, TRUE)
  \/ \E i \in answerInv : createAnswer_afterCA(i, TRUE)
  \/ \E i \in answerInv : createAnswer_afterSLD(i, TRUE)
  \/ \E i \in answerInv : createAnswer_rejected(i)
  \/ \E n \in PcIds, st \in {"connecting", "connected", "disconnected", "failed"} :
        ~isStreamer /\ pcConnectionStateChange(n, st)
  \/ retryEffect
  \/ joinEffect
  \/ retryTimerFire(FALSE)
  \/ manualReconnect
  \/ socket_reconnect
  \/ joinRoom_emit
  \/ \E ok \in BOOLEAN : joinRoom_ack(ok)
  \/ \E ok \in BOOLEAN : attachEffect(ok)
  \/ \E ok \in BOOLEAN : playVideo(ok)
  \/ socket_streamPaused
  \/ socket_streamResumed
  \/ \E ok \in BOOLEAN : viewer_iceCandidate(ok)
  \/ viewer_unmount

SpecPage == InitViewer /\ [][NextPage]_vars

\* The viewer when the relay acknowledges every join and every description is
\* accepted, one negotiation at a time: connections fail and the retry logic runs.
\* Automatic reconnect sequences are counted in obs.
NextRetry ==
  \/ \E s \in Streamers : answerInv = {} /\ socket_offer(s)
  \/ \E i \in answerInv : createAnswer_afterSRD(i, TRUE)
  \/ \E i \in answerInv : createAnswer_afterCA(i, TRUE)
  \/ \E i \in answerInv : createAnswer_afterSLD(i, TRUE)
  \/ \E i \in answerInv : createAnswer_rejected(i)
  \/ \E n \in PcIds, st \in {"connecting", "connected", "disconnected", "failed"} :
        ~isStreamer /\ pcConnectionStateChange(n, st)
  \/ retryEffect
  \/ joinEffect
  \/ retryTimerFire(TRUE)
  \/ manualReconnect
  \/ joinRoom_emit
  \/ joinRoom_ack(TRUE)

SpecRetry == InitViewer /\ [][NextRetry]_vars

\* ---------------------------------------------- the streamer specification

InitStreamer ==
  /\ HookInit(TRUE)
  /\ status = "Ready"
  /\ ViewerPageInit
  /\ StreamerPageInit
  /\ ServerInit
  /\ ObsVarsInit

\* The events of a mounted streamer page.
StreamerPageNext ==
  \/ initializeStream
  \/ \E outcome \in MediaOutcomes : initializeStream_afterMedia(outcome)
  \/ createRoom_ack
  \/ stopStream
  \/ restartStream
  \/ \E outcome \in MediaOutcomes : restartStream_afterMedia(outcome)
  \/ \E v \in Viewers : onViewerJoined(v)
  \/ \E v \in Viewers : onViewerLeft(v)
  \/ \E v \in Viewers, ok \in BOOLEAN : socket_answer(v, ok)
  \/ \E v \in Viewers, ok \in BOOLEAN : streamer_iceCandidate(v, ok)
  \/ streamer_unmount

NextStreamer ==
  \/ mounted /\ StreamerPageNext
  \/ \E i \in offerInv, ok \in BOOLEAN : createOffer_afterCO(i, ok)
  \/ \E i \in offerInv, ok \in BOOLEAN : createOffer_afterSLD(i, ok)
  \/ \E i \in offerInv : createOffer_rejected(i)
  \/ \E n \in PcIds, st \in {"connecting", "connected", "disconnected", "failed"} :
        isStreamer /\ pcConnectionStateChange(n, st)
  \/ server_createRoom
  \/ \E v \in Viewers : server_joinRoom(v)
  \/ \E v \in Viewers : server_disconnect(v)
  \/ server_offer
  \/ \E type \in {"stream-paused", "stream-resumed"} : server_streamEvent(type)
  \/ \E v \in Viewers : server_answer(v)
  \/ \E v \in Viewers : viewer_receive(v)

SpecStreamer == InitStreamer /\ [][NextStreamer]_vars

\* ------------------------------------------------ the server specification

\* The server after startup, in development or in production mode; the pages'
\* variables keep their initial values.
InitServer ==
  /\ HookInit(FALSE)
  /\ status = "Connecting..."
  /\ ViewerPageInit
  /\ StreamerPageInit
  /\ ObsVarsInit
  /\ toServer = <<>> /\ toStreamer = <<>>
  /\ inbox = [v \in Viewers |-> <<>>]
  /\ isDevelopment \in BOOLEAN
  /\ rooms = [r \in RoomIds |-> NoRoom]
  /\ ioRooms = [r \in RoomIds |-> {}]
  /\ sockets = {}
  /\ request = NoRequest
  /\ wire = <<>>

NextServer ==
  \/ \E s \in SocketIds : io_connection(s)
  \/ \E s \in SocketIds, r \in RoomIds : on_createRoom(s, r)
  \/ \E s \in SocketIds, r \in RoomIds : on_joinRoom(s, r)
  \/ \E event \in RelayEvents, s \in SocketIds, t \in SocketIds, p \in Payloads :
        on_relay(event, s, t, p)
  \/ \E event \in {"stream-paused", "stream-resumed"}, s \in SocketIds, r \in RoomIds :
        on_streamEvent(event, s, r)
  \/ \E s \in SocketIds : on_disconnect(s)

SpecServer == InitServer /\ [][NextServer]_vars

\* ------------------------------------------------------------- properties

\* C1: an offer delivered while createAnswer for its sender is in flight leaves the
\* session, the guard and the invocations untouched, and no delivered offer is
\* answered twice although the hook's listener and the page's onOffer both call
\* createAnswer for it.
C1_DuplicateOfferDropped ==
  /\ [](\A o \in OfferIds : answerCount[o] <= 1)
  /\ [][\A s \in Streamers :
          (socket_offer(s) /\ s \in processingOffers) =>
            /\ UNCHANGED <<peerConnection, pcs, processingOffers, answerInv>>
            /\ \A o \in OfferIds : answerCount'[o] <= answerCount[o]]_vars

\* An offer was dropped at the guard while the negotiation now at its last step
\* was in flight.
C1_Witness ==
  /\ obs.dropped
  /\ \E i \in answerInv : i.pos = "sld" /\ i.streamer \in processingOffers

\* C2: at most one createAnswer invocation per streamerId is between its guard
\* check and its finally block.
C2_OneNegotiationPerPeer ==
  \A s \in Streamers : Cardinality({i \in answerInv : i.streamer = s}) <= 1

\* C4: every retry timer is scheduled with attemptCount in 1..5 and delay
\* 2000 x attemptCount; when attemptCount exceeds 5 no timer is scheduled and the
\* terminal status is reported.
C4_RetrySchedule ==
  [][/\ retryCount' = retryCount + 1 =>
          IF retryCount' > 5
          THEN ~retryTimer'.pending /\ status' = "WebRTC failed after multiple retries"
          ELSE /\ retryCount' \in 1..5
               /\ retryTimer'.pending
               /\ retryTimer'.delay = 2000 * retryCount'
     /\ (retryTimer'.pending /\ retryTimer' # retryTimer) => retryCount' = retryCount + 1
    ]_vars

\* The count went past 5: the terminal status is shown and no timer is pending.
C4_Witness ==
  /\ retryCount = 6
  /\ status = "WebRTC failed after multiple retries"
  /\ ~retryTimer.pending

\* C5: while the connection does not reach connected again, at most 5 automatic
\* reconnect sequences are executed.
C5_AtMostFiveAttempts == obs.auto <= 5

\* C6: when the reconnect fired after 2000 ms did not lead to a connected session,
\* the next retry timer is scheduled with delay 4000 ms.
C6_SecondDelayDoubles ==
  (retryTimer.pending /\ obs.firedDelay = 2000 /\ obs.schedSinceFire = 1)
    => retryTimer.delay = 4000

\* C7: after a join-room success acknowledgement and after a manual reconnect the
\* attempt count is 0, and the first timer scheduled afterwards has the attempt-1
\* delay of 2000 ms.
C7_ResetToAttemptOne ==
  /\ obs.schedSinceReset = 0 => retryCount = 0
  /\ (retryTimer.pending /\ obs.schedSinceReset = 1) => retryTimer.delay = 2000

\* After a successful join the connection failed and the first timer is pending.
C7_Witness ==
  /\ hasJoinedRoom /\ retryTimer.pending
  /\ obs.schedSinceReset = 1 /\ retryTimer.delay = 2000

\* C3: the streamer's published connectionState is "connected" exactly when a
\* session of the table is connected, and "new" exactly when the table is empty.
C3_AggregateMatchesSessions ==
  /\ connectionState = "connected" <=>
       \E n \in Sessions(peerConnections) : pcs[n].conn = "connected"
  /\ connectionState = "new" <=> Sessions(peerConnections) = {}

\* C8: stopStream() stops the local media and leaves the session table, every
\* session and the server's room as they are, and emits stream-paused, which the
\* server forwards to every viewer of the room without touching the room.
C8_PauseKeepsSessions ==
  [][/\ (isStreaming /\ ~isStreaming') =>
          /\ UNCHANGED <<peerConnections, pcs, rooms, ioRooms, viewersRef>>
          /\ localStream' = 0
          /\ roomId # "" => toServer' = Append(toServer, Msg("stream-paused", 0))
     /\ (toServer # <<>> /\ Head(toServer).type = "stream-paused"
           /\ toServer' = Tail(toServer)) =>
          /\ UNCHANGED <<peerConnections, pcs, rooms, ioRooms, toStreamer>>
          /\ \A v \in Viewers :
               inbox'[v] = IF v \in rooms[DEV_ROOM_ID].viewers
                           THEN Append(inbox[v], Msg("stream-paused", 0))
                           ELSE inbox[v]
    ]_vars

\* The stream is paused, a viewer of the room has its stream-paused message, and
\* its session is still open and connected.
C8_Witness ==
  /\ ~isStreaming /\ localStream = 0
  /\ \E v \in rooms[DEV_ROOM_ID].viewers :
       /\ inbox[v] # <<>> /\ Head(inbox[v]).type = "stream-paused"
       /\ peerConnections[v] # 0
       /\ pcs[peerConnections[v]].conn = "connected"

C10_ResumeKeepsSessions ==
  [][(restartPos = "resume_media" /\ isStreaming') =>
       \A v \in viewersRef :
         LET n == peerConnections[v] IN
         n # 0 => peerConnections'[v] = n /\ pcs'[n] = pcs[n]
    ]_vars

\* How many times the server sent message m in its last handler.
Sent(m) == Cardinality({k \in 1..Len(wire) : wire[k] = m})
SentNext(m) == Cardinality({k \in 1..Len(wire') : wire'[k] = m})

\* C11: when the socket recorded as a room's streamer disconnects, that room is
\* gone from the registry afterwards and every other socket recorded as one of
\* its viewers is sent streamer-left for that room exactly once.
C11_StreamerDisconnectNotifiesOnce ==
  [][request'.event = "disconnect" =>
       \A r \in RoomIds : (rooms[r].exists /\ rooms[r].streamer = request'.from) =>
         /\ ~rooms'[r].exists
         /\ \A v \in rooms[r].viewers \ {request'.from} :
              SentNext(Out(v, "streamer-left", 0, 0, r)) = 1]_vars

\* A streamer's disconnect has just closed a room with two viewers.
C11_Witness ==
  \E r \in RoomIds :
    /\ request.event = "disconnect"
    /\ ~rooms[r].exists
    /\ Len(wire) = 2
    /\ \E v \in sockets : \E w \in sockets \ {v} :
         /\ Sent(Out(v, "streamer-left", 0, 0, r)) = 1
         /\ Sent(Out(w, "streamer-left", 0, 0, r)) = 1

\* C12: join-room from a socket already recorded as a viewer of the room is
\* acknowledged with success, changes nothing in the registry and sends
\* nothing else (no second viewer-joined).
C12_DuplicateJoinIsNoOp ==
  [][(/\ request'.event = "join-room"
      /\ rooms[request'.room].exists
      /\ request'.from \in rooms[request'.room].viewers) =>
         /\ rooms' = rooms
         /\ wire' = <<Out(request'.from, "join-room:success", 0, 0, request'.room)>>]_vars

\* A viewer of a room whose streamer is another socket has just joined again:
\* success is all the server sent (a first join also notifies the streamer).
C12_Witness ==
  \E s \in sockets, r \in RoomIds :
    /\ request = Req("join-room", s, r, 0, "")
    /\ rooms[r].exists /\ s \in rooms[r].viewers
    /\ rooms[r].streamer \in sockets \ {s}
    /\ wire = <<Out(s, "join-room:success", 0, 0, r)>>

\* C13: join-room for a room id the registry does not hold is acknowledged
\* with the error "Room does not exist", changes nothing in the registry and
\* sends no viewer-joined.
C13_JoinMissingRoomRejected ==
  [][(request'.event = "join-room" /\ ~rooms[request'.room].exists) =>
         /\ rooms' = rooms
         /\ wire' = <<Out(request'.from, "join-room:error", 0, 0, "Room does not exist")>>]_vars

\* A join was just refused while another room is open.
C13_Witness ==
  /\ request.event = "join-room"
  /\ ~rooms[request.room].exists
  /\ Len(wire) = 1 /\ wire[1].event = "join-room:error"
  /\ \E r \in RoomIds : rooms[r].exists

\* C14: every room of the registry records one streamer, and that streamer is
\* a connected socket; so no room outlives the disconnect of its streamer.
C14_RoomHasLiveStreamer ==
  \A r \in RoomIds : rooms[r].exists => rooms[r].streamer \in sockets

\* A socket has just disconnected and a room with a viewer is still open.
C14_Witness ==
  /\ request.event = "disconnect"
  /\ \E r \in RoomIds : rooms[r].exists /\ rooms[r].viewers # {}

\* C15: relaying an offer, an answer or an ICE candidate sends at most one
\* message: to the socket named as target, with the payload as received and the
\* relaying socket as sender. A connected target other than the sender gets it;
\* for a target that is not connected nothing is sent, the sender gets no
\* error, and the registry is untouched either way.
C15_RelayToTargetOnly ==
  [][request'.event \in RelayEvents =>
       LET m == Out(request'.target, request'.event, request'.from, 0, request'.payload) IN
         /\ rooms' = rooms
         /\ \A k \in 1..Len(wire') : wire'[k] = m
         /\ request'.target \in sockets \ {request'.from} => wire' = <<m>>
         /\ request'.target \notin sockets => wire' = <<>>]_vars

\* An answer was just relayed from one connected socket to another.
C15_Witness ==
  /\ request.event = "answer"
  /\ request.target \in sockets \ {request.from}
  /\ wire = <<Out(request.target, "answer", request.from, 0, request.payload)>>

\* The sockets that a handler's broadcast to room r reached.
BroadcastEvents == {"stream-paused", "stream-resumed", "streamer-left"}
Recipients(sent, r) ==
  {sent[k].to : k \in {j \in 1..Len(sent) :
                         sent[j].event \in BroadcastEvents /\ sent[j].text = r}}

\* C16: when the streamer of a room announces a pause or a resume, or
\* disconnects, the sockets that receive the broadcast are exactly the viewers
\* the registry records for that room at that moment.
C16_BroadcastReachesExactlyViewers ==
  [][\A r \in RoomIds :
       (/\ rooms[r].exists /\ rooms[r].streamer = request'.from
        /\ \/ request'.event = "disconnect"
           \/ request'.event \in {"stream-paused", "stream-resumed"} /\ request'.room = r)
       => Recipients(wire', r) = rooms[r].viewers \ {request'.from}]_vars

\* C17: createAnswer calls setRemoteDescription only on a session whose
\* signalingState is stable; an offer that finds the guard free and an open
\* session that is not stable changes no session, starts no negotiation (so no
\* answer is sent for it) and reports no error.
C17_OfferAppliedOnlyWhenStable ==
  [][\A s \in Streamers : socket_offer(s) =>
       /\ \A i \in answerInv' \ answerInv :
            i.pos = "srd" => pcs'[i.target].sig = "stable"
       /\ (/\ s \notin processingOffers
           /\ peerConnection # 0
           /\ ~Terminal(pcs[peerConnection].conn)
           /\ pcs[peerConnection].sig # "stable")
          => /\ pcs' = pcs /\ peerConnection' = peerConnection
             /\ answerInv' = answerInv /\ processingOffers' = processingOffers
             /\ error' = error]_vars

\* An offer was just ignored: the session is open in have-remote-offer and no
\* negotiation is in flight.
C17_Witness ==
  /\ obs.ignored
  /\ peerConnection # 0 /\ pcs[peerConnection].sig = "have-remote-offer"
  /\ answerInv = {} /\ processingOffers = {}

\* C18: the guard holds a streamerId only while a createAnswer invocation for
\* that streamer is suspended, and when an invocation returns (answer sent,
\* failure or rejection) the guard holds no entry for its streamer; a failed
\* negotiation therefore leaves the guard free for the next offer.
C18_GuardOnlyWhileInFlight ==
  /\ [](\A s \in processingOffers : \E i \in answerInv : i.streamer = s)
  /\ [][\A i \in answerInv :
          (\A j \in answerInv' : j.offer # i.offer \/ j.page # i.page)
            => i.streamer \notin processingOffers']_vars

\* After a failed negotiation the next offer of the same streamer is being
\* negotiated under a new guard entry.
C18_Witness ==
  /\ error = "WebRTC Answer Error"
  /\ \E i \in answerInv : i.pos = "srd" /\ i.streamer \in processingOffers

\* C19: after cleanupViewerConnection has closed a viewer's session, the
\* published connection state is what onconnectionstatechange computes over
\* the sessions that remain: connected, else connecting, else disconnected if
\* any session remains, else new.
C19_CleanupPublishesAggregate ==
  [][\A v \in Viewers :
       (onViewerLeft(v) /\ peerConnections[v] # 0)
         => connectionState' = onStateAggregate(peerConnections', pcs')]_vars

\* C20: createOffer for a viewer who joins while there is no local stream
\* publishes the error "Local stream not ready" and does nothing else: the
\* session table and every session are as before, no createOffer invocation is
\* started and no offer is sent.
C20_NoOfferWithoutLocalStream ==
  [][\A v \in Viewers :
       (onViewerJoined(v) /\ localStream = 0)
         => /\ error' = "Local stream not ready"
            /\ peerConnections' = peerConnections /\ pcs' = pcs
            /\ offerInv' = offerInv /\ toServer' = toServer
            /\ connectionState' = connectionState]_vars

\* A viewer has joined a paused stream: the error is published and the viewer
\* has no session.
C20_Witness ==
  /\ localStream = 0 /\ roomId # ""
  /\ error = "Local stream not ready" /\ status = "Viewer connected"
  /\ \E v \in viewersRef : peerConnections[v] = 0

\* C21: on the streamer every open session is the table's entry of exactly one
\* viewer: creating a session for a viewer who has one closes and removes the
\* old one first, so no open session exists outside the table.
C21_NoSessionOutsideTable ==
  /\ \A n \in PcIds : pcs[n] # NoPc => n \in Sessions(peerConnections)
  /\ \A v \in Viewers, w \in Viewers :
       (v # w /\ peerConnections[v] # 0) => peerConnections[v] # peerConnections[w]

\* A viewer's connected session was replaced by a new one: the published state
\* is still "connected" although the table's only session is new.
C21_Witness ==
  /\ isStreamer /\ connectionState = "connected"
  /\ \E v \in Viewers :
       /\ peerConnections[v] # 0 /\ pcs[peerConnections[v]].conn = "new"
       /\ \A w \in Viewers \ {v} : peerConnections[w] = 0

\* C23: the viewer never has an open session other than the one its ref
\* names, and an offer that passes the guard replaces that session by a new
\* one exactly when its connectionState is failed, closed or disconnected; a
\* session that is new, connecting or connected is kept as it is.
C23_ReplaceOnlyTerminalSession ==
  /\ [](~isStreamer => \A n \in PcIds : pcs[n] # NoPc => n = peerConnection)
  /\ [][\A s \in Streamers :
          (socket_offer(s) /\ s \notin processingOffers /\ peerConnection # 0) =>
            IF pcs[peerConnection].conn \in {"failed", "closed", "disconnected"}
            THEN peerConnection' # 0 /\ pcs'[peerConnection'] = NewPc
            ELSE peerConnection' = peerConnection
                 /\ pcs'[peerConnection] = pcs[peerConnection]]_vars

\* A failed session was just replaced: the published state is still "failed"
\* and the offer is being applied to a new session.
C23_Witness ==
  /\ ~isStreamer /\ connectionState = "failed"
  /\ peerConnection # 0 /\ pcs[peerConnection] = NewPc
  /\ \E i \in answerInv : i.pos = "srd" /\ i.target = peerConnection

\* C22: in every reachable state, handleAnswer for a viewer without a session
\* and handleIceCandidate for a peer without a session change nothing: no
\* session is created or touched and no error is set (neither function sends).
C22_NoSessionIsSilentNoOp ==
  \A ok \in BOOLEAN :
    /\ \A v \in Viewers :
         (isStreamer /\ peerConnections[v] = 0) =>
           /\ handleAnswer(peerConnections, pcs, error, v, ok)
                = [pcs |-> pcs, error |-> error]
           /\ handleIceCandidate(TRUE, peerConnections, peerConnection, error, v, ok)
                = error
    /\ (~isStreamer /\ peerConnection = 0) =>
         handleIceCandidate(FALSE, peerConnections, peerConnection, error, 0, ok) = error

\* The streamer is live with a session for one viewer and none for another
\* that is not in the room, so a candidate from the latter finds no session;
\* no error is current.
C22_Witness ==
  /\ isStreamer /\ mounted /\ isStreaming /\ error = "none"
  /\ \E v \in Viewers : \E w \in Viewers \ {v} :
       /\ peerConnections[v] = 0 /\ v \notin viewersRef
       /\ peerConnections[w] # 0 /\ pcs[peerConnections[w]].conn = "connected"
       /\ ENABLED streamer_iceCandidate(v, FALSE)

\* C24: the viewer's stream-paused handler marks playback paused and leaves the
\* session, the session store and the remote stream as they were; neither it
\* nor the stream-resumed handler starts an offer or sends anything; and a
\* viewer never has a createOffer invocation or an offer on its way to the relay.
C24_PauseKeepsViewerSession ==
  /\ [][socket_streamPaused =>
          /\ playback'.paused /\ ~playback'.playing
          /\ peerConnection' = peerConnection /\ pcs' = pcs
          /\ remoteStream' = remoteStream]_vars
  /\ [][(socket_streamPaused \/ socket_streamResumed) =>
          /\ offerInv' = offerInv /\ toServer' = toServer
          /\ answerCount' = answerCount]_vars
  /\ [](~isStreamer =>
          /\ offerInv = {}
          /\ \A k \in 1..Len(toServer) : toServer[k].type # "offer")

\* Playback is marked paused while the viewer's connected session and its
\* remote stream are still held.
C24_Witness ==
  /\ ~isStreamer /\ playback.paused /\ ~playback.playing
  /\ status = "Stream paused - waiting to resume..."
  /\ peerConnection # 0 /\ pcs[peerConnection].conn = "connected"
  /\ remoteStream

\* C25: retryCountRef is incremented only by a run of the auto-retry effect at
\* which connectionState has changed, since the effect last ran, into failed or
\* disconnected; a run caused by another dependency alone does not count.
C25_CountsOnlyStateTransitions ==
  [][retryCount' > retryCount =>
       /\ retryCount' = retryCount + 1
       /\ connectionState \in {"failed", "disconnected"}
       /\ retryDeps[1] # connectionState]_vars

\* C26: a step that runs handleReconnect (the timer firing, the Reconnect
\* button, the socket's "reconnect" event) leaves no pending retry timer, the
\* previous session closed and the viewer without a session, the remote stream
\* cleared, the guard set empty and the joined, processing and playback flags
\* reset; and after it a join-room request is emitted to the relay (unless the
\* retry count has reached its bound).
C26_ReconnectReissuesJoin ==
  /\ [][(\/ manualReconnect
         \/ socket_reconnect
         \/ /\ \E count \in BOOLEAN : retryTimerFire(count)
            /\ ~retryTimer.connected /\ ~retryTimer.joining) =>
          /\ ~retryTimer'.pending
          /\ peerConnection' = 0
          /\ peerConnection # 0 => pcs'[peerConnection] = NoPc
          /\ ~remoteStream' /\ processingOffers' = {}
          /\ ~hasJoinedRoom' /\ ~isProcessingOffer'
          /\ ~playback'.paused /\ ~playback'.playing /\ ~playback'.needsInteraction]_vars
  /\ obs.owed ~> (~obs.owed \/ retryCount = MaxCount)

\* C27: no retry timer is ever left running with its handle overwritten, so at
\* most one is pending; none is pending once the page is unmounted, nor once
\* the connection is published connected and the effects have run; and a
\* reconnect by the button or by the socket's "reconnect" event leaves none
\* pending, so a timer scheduled earlier cannot fire a reconnect sequence.
C27_SingleCancellableTimer ==
  /\ [](retryTimer.orphans = 0 /\ (retryTimer.pending => retryTimer.set))
  /\ [](~mounted => ~retryTimer.pending)
  /\ []((Idle /\ connectionState = "connected") => ~retryTimer.pending)
  /\ [][(manualReconnect \/ socket_reconnect) => ~retryTimer'.pending]_vars

\* The page was unmounted after the auto-retry effect had counted an attempt
\* and scheduled its timer; no timer is pending.
C27_Witness ==
  /\ ~isStreamer /\ ~mounted
  /\ retryCount \in 1..MaxRetries
  /\ ~retryTimer.pending

\* C28: when cleanup() runs at teardown with sessions open, every callback the
\* hook registered on them has been set to null before they are closed.
C28_CleanupUnregistersAllCallbacks ==
  [][((streamer_unmount \/ viewer_unmount)
        /\ (peerConnection # 0 \/ Sessions(peerConnections) # {})) =>
       registeredCallbacks(isStreamer) \ cleanupUnregistered(isStreamer) = {}]_vars

\* C29: startLocalStream stores a newly acquired stream only when no stream is
\* held, so that the tracks of every acquisition are still reachable from
\* localStream when stopLocalStream or cleanup() stops them.
C29_EveryAcquiredTrackStopped ==
  [][(\E outcome \in MediaOutcomes \ {"nomedia"} :
        initializeStream_afterMedia(outcome) \/ restartStream_afterMedia(outcome)) =>
       localStream = 0]_vars

\* C30: a successful operation leaves no current error: after the join-room
\* acknowledgement reports success, and after createAnswer has applied the
\* local description and sent the answer, error is null.
C30_SuccessClearsError ==
  [][(joinRoom_ack(TRUE) \/ \E i \in answerInv : createAnswer_afterSLD(i, TRUE)) =>
       error' = "none"]_vars

\* C37: a create-room request leaves every room that another, connected socket
\* streams as it was: same streamer, same viewers.
C37_CreateRoomKeepsOthersRooms ==
  [][request'.event = "create-room" =>
       \A r \in RoomIds :
         (rooms[r].exists /\ rooms[r].streamer \in sockets
            /\ rooms[r].streamer # request'.from) => rooms'[r] = rooms[r]]_vars

\* C34: when viewer v's socket disconnects (socket.io takes it out of the
\* room) while the room's viewer set holds it, the room
\* loses v and nothing else and exactly one viewer-left naming v is sent to the
\* streamer; when the streamer handles viewer-left for v, it is left with no
\* session for v (the one it had is closed), v is no longer in viewersRef, and
\* the other viewers' sessions and entries are untouched.
C34_ViewerDisconnectCleansUp ==
  [][\A v \in Viewers :
       /\ (v \in ioRooms[DEV_ROOM_ID] /\ v \notin ioRooms'[DEV_ROOM_ID]
             /\ rooms[DEV_ROOM_ID].exists /\ v \in rooms[DEV_ROOM_ID].viewers) =>
            /\ rooms'[DEV_ROOM_ID] = [rooms[DEV_ROOM_ID] EXCEPT !.viewers = @ \ {v}]
            /\ toStreamer' = Append(toStreamer, Msg("viewer-left", v))
       /\ (toStreamer # <<>> /\ Head(toStreamer) = Msg("viewer-left", v)
             /\ toStreamer' = Tail(toStreamer)) =>
            /\ peerConnections'[v] = 0 /\ v \notin viewersRef'
            /\ peerConnections[v] # 0 => pcs'[peerConnections[v]] = NoPc
            /\ viewersRef' = viewersRef \ {v}
            /\ \A w \in Viewers \ {v} : peerConnections'[w] = peerConnections[w]]_vars

\* The streamer has handled viewer-left for a viewer whose session it held:
\* that viewer has no session and is not known, another viewer still is.
C34_Witness ==
  /\ isStreamer /\ status = "Streaming live (n watching)"
  /\ \E v \in Viewers : \E w \in Viewers \ {v} :
       /\ peerConnections[v] = 0 /\ v \notin viewersRef
       /\ v \notin rooms[DEV_ROOM_ID].viewers
       /\ w \in viewersRef /\ peerConnections[w] # 0

\* C35: an offer delivered to a viewer that is published connected starts no
\* createAnswer invocation: the session, the guard set and the suspended
\* invocations are as before, so no answer will be sent for it.
C35_HealthyViewerSkipsOffer ==
  [][((\E s \in Streamers : socket_offer(s))
        /\ isConnected /\ connectionState = "connected") =>
       /\ answerInv' = answerInv
       /\ processingOffers' = processingOffers
       /\ peerConnection' = peerConnection /\ pcs' = pcs]_vars

\* C33: in every reachable state a candidate that arrives is applied to the
\* session the viewer holds at that moment and to no other; when the viewer
\* holds none, it is applied to no session and the handler leaves no trace
\* (the error is as before), so nothing remains to apply to a later session.
C33_CandidateForCurrentSessionOnly ==
  ~isStreamer =>
    /\ iceCandidateTarget(FALSE, peerConnections, peerConnection, 0) = peerConnection
    /\ peerConnection = 0 =>
         \A ok \in BOOLEAN :
           handleIceCandidate(FALSE, peerConnections, peerConnection, error, 0, ok) = error

\* The viewer has joined and holds no session yet (the offer has not been
\* handled), and a candidate can be delivered to it.
C33_Witness ==
  /\ ~isStreamer /\ hasJoinedRoom /\ ~isJoining
  /\ peerConnection = 0 /\ answerInv = {}
  /\ ENABLED viewer_iceCandidate(FALSE)

\* C32: the streamer emits stream-resumed only once startStreamCore() has
\* settled with the local media acquired: never while the acquisition is still
\* pending, and never without a local stream.
C32_ResumedOnlyAfterMedia ==
  [][(Len(toServer') = Len(toServer) + 1
        /\ toServer'[Len(toServer')].type = "stream-resumed") =>
       /\ restartPos' # "resume_media"
       /\ localStream' # 0]_vars

\* C36: messages travel in order, so while an offer for viewer v is still on
\* its way to v, an answer from v that reaches the streamer responds to an
\* older offer than the one the current session for v sent; such an answer is
\* not applied to the current session.
C36_LateAnswerNotApplied ==
  [][\A v \in Viewers :
       (/\ toStreamer # <<>> /\ Head(toStreamer) = Msg("answer", v)
        /\ toStreamer' = Tail(toStreamer)
        /\ \/ \E k \in 1..Len(toServer) : toServer[k] = Msg("offer", v)
           \/ \E k \in 1..Len(inbox[v]) : inbox[v][k].type = "offer"
        /\ peerConnections[v] # 0) =>
         pcs'[peerConnections[v]] = pcs[peerConnections[v]]]_vars

\* C38: whenever the joining flag is set it is cleared again later, whether or
\* not the relay ever acknowledges the join-room request.
C38_JoinTerminates == isJoining ~> ~isJoining

\* C31: a join-room request re-issued by a socket that is still connected under
\* the same id, and so is still in the room's viewer set, notifies the room's
\* connected streamer: viewer-joined naming the socket is sent to it, which is
\* what makes the streamer send the viewer a fresh offer.
C31_RejoinNotifiesStreamer ==
  [][LET s == request'.from
         r == request'.room
     IN (/\ request'.event = "join-room"
         /\ r \in RoomIds /\ rooms[r].exists
         /\ s \in rooms[r].viewers
         /\ rooms[r].streamer \in sockets \ {s}) =>
          SentNext(Out(rooms[r].streamer, "viewer-joined", 0, s, r)) = 1]_vars

====
